---- MODULE Spec2Model ----
(***************************************************************************)
(* Model of src/analysis/properties.rs: the property analyzer of gir.      *)
(*                                                                         *)
(*   analyze                 the loop over the declared properties         *)
(*   analyze_property        getter / setter / notify-signal of one        *)
(*                           property                                      *)
(*   get_type_default_value  the placeholder literal of a type             *)
(*   PropertyConversion::of  the conversion strategy of a type             *)
(*                                                                         *)
(* Three specifications share the variables:                               *)
(*   Spec          analyze, one loop iteration per step                    *)
(*   SpecProperty  one call of analyze_property over the full input domain *)
(*   SpecDefault   one call of get_type_default_value over every category  *)
(***************************************************************************)
EXTENDS Integers, Sequences, FiniteSets, TLC

VARIABLES
    pc,              \* position of the modelled call
    min_cfg_version, \* env.config.min_cfg_version, the deprecation cutoff
    generate_trait,  \* analyze's generate_trait argument
    props,           \* analyze: the inputs of the iterations done so far
    properties,      \* analyze: Vec<Property> accumulated
    notify_signals,  \* analyze: Vec<signals::Info> accumulated
    imports,         \* analyze: the calls made on the Imports aggregator
    arg,             \* analyze_property: the arguments of the call
    ret,             \* analyze_property: the returned triple and its imports
    type_,           \* get_type_default_value: the library::Type
    type_str,        \* get_type_default_value: rust_type(env, type_tid)
    default_value    \* get_type_default_value: the returned Option<String>

vars == <<pc, min_cfg_version, generate_trait, props, properties, notify_signals,
          imports, arg, ret, type_, type_str, default_value>>

-----------------------------------------------------------------------------
(* Bounds *)

MaxVersion == 2
MaxOverrides == 2
MaxProps == 2

-----------------------------------------------------------------------------
(* Option<T>: None is the empty tuple, Some(v) the one-element tuple. *)

None == <<>>
Some(v) == <<v>>
IsSome(o) == o # None
Unwrap(o) == o[1]

Versions == 1..MaxVersion
OptVersions == {None} \cup {Some(v) : v \in Versions}

\* Option<Version>'s derived ordering, as used by `version <= prop_version`:
\* None sorts before every Some, two Some compare by their versions.
OptVersionLe(a, b) == a = None \/ (b # None /\ Unwrap(a) <= Unwrap(b))

\* Option::or
OptOr(a, b) == IF IsSome(a) THEN a ELSE b

-----------------------------------------------------------------------------
(* library::Type and get_type_default_value *)

\* The Fundamental categories get_type_default_value names
MappedFundamentals ==
    {"Boolean", "Int", "UInt", "Utf8", "Float", "Double", "Int8", "UInt8",
     "Int16", "UInt16", "Int32", "UInt32", "Int64", "UInt64", "Char", "UChar",
     "Size", "SSize", "Pointer", "Type"}

\* Fundamental categories that reach the `_ => None` arm
OtherFundamentals ==
    {"None", "Short", "UShort", "Long", "ULong", "UniChar", "Filename",
     "VarArgs", "Unsupported"}

Fundamentals == MappedFundamentals \cup OtherFundamentals

\* Type categories that reach the outer `_ => None` arm
OtherKinds ==
    {"Alias", "Union", "Function", "Custom", "Array", "CArray", "FixedArray",
     "PtrArray", "HashTable", "List", "SList"}

NamedKinds == {"Bitfield", "Enumeration", "Class", "Record", "Interface"}

Fundamental(f) == [kind |-> "Fundamental", fund |-> f]
Kind(k) == [kind |-> k, fund |-> "None"]

Types == {Fundamental(f) : f \in Fundamentals} \cup {Kind(k) : k \in NamedKinds \cup OtherKinds}

\* rendered type names rust_type can return
RustNames == {"Widget", "Rectangle", "Orientable"}

\* get_type_default_value(env, type_tid, type_), with s = rust_type(env, type_tid).into_string()
get_type_default_value(t, s) ==
    IF t.kind = "Fundamental" THEN
        CASE t.fund = "Boolean" -> Some("&false")
          [] t.fund = "Int"     -> Some("&0")
          [] t.fund = "UInt"    -> Some("&0u32")
          [] t.fund = "Utf8"    -> Some("None::<&str>")
          [] t.fund = "Float"   -> Some("&0f32")
          [] t.fund = "Double"  -> Some("&0f64")
          [] t.fund = "Int8"    -> Some("&0i8")
          [] t.fund = "UInt8"   -> Some("&0u8")
          [] t.fund = "Int16"   -> Some("&0i16")
          [] t.fund = "UInt16"  -> Some("&0u16")
          [] t.fund = "Int32"   -> Some("&0i32")
          [] t.fund = "UInt32"  -> Some("&0u32")
          [] t.fund = "Int64"   -> Some("&0i64")
          [] t.fund = "UInt64"  -> Some("&0u64")
          [] t.fund = "Char"    -> Some("&0i8")
          [] t.fund = "UChar"   -> Some("&0u8")
          [] t.fund = "Size"    -> Some("&0isize")
          [] t.fund = "SSize"   -> Some("&0usize")
          [] t.fund = "Pointer" -> Some("::std::ptr::null_mut()")
          [] t.fund = "Type"    -> Some("&gobject_sys::G_TYPE_NONE")
          [] OTHER              -> None
    ELSE CASE t.kind = "Bitfield"    -> Some("&0u32")
           [] t.kind = "Enumeration" -> Some("&0")
           [] t.kind \in {"Class", "Record", "Interface"} -> Some("None::<&" \o s \o ">")
           [] OTHER -> None

\* PropertyConversion::of
PropertyConversion_of(t) ==
    CASE t.kind = "Bitfield"    -> "Bitflag"
      [] t.kind = "Enumeration" -> "AsI32"
      [] OTHER                  -> "Direct"

-----------------------------------------------------------------------------
(* The environment: a library of representative types.  env.type_,        *)
(* rust_type, used_rust_type, RefMode::of and Bound::get_for_property_setter *)
(* are answered from this table.                                           *)

TypeIds == {"gboolean", "Mode", "Widget", "Rectangle", "GList", "Callback"}

\* env.type_(tid)
env_type(tid) ==
    CASE tid = "gboolean"  -> Fundamental("Boolean")
      [] tid = "Mode"      -> Kind("Enumeration")
      [] tid = "Widget"    -> Kind("Class")
      [] tid = "Rectangle" -> Kind("Record")
      [] tid = "GList"     -> Kind("List")
      [] tid = "Callback"  -> Kind("Function")

\* rust_type(env, tid): Result<String>, as [ok, s]; into_string() is .s
rust_type(tid) ==
    CASE tid = "gboolean"  -> [ok |-> TRUE,  s |-> "bool"]
      [] tid = "Mode"      -> [ok |-> TRUE,  s |-> "Mode"]
      [] tid = "Widget"    -> [ok |-> TRUE,  s |-> "Widget"]
      [] tid = "Rectangle" -> [ok |-> TRUE,  s |-> "Rectangle"]
      [] tid = "GList"     -> [ok |-> TRUE,  s |-> "Vec<Widget>"]
      [] tid = "Callback"  -> [ok |-> FALSE, s |-> "/*Unimplemented*/Callback"]

\* used_rust_type(env, tid): the type name to import, if the type needs one
used_rust_type(tid) ==
    CASE tid \in {"Mode", "Widget", "Rectangle"} -> [ok |-> TRUE, s |-> rust_type(tid).s]
      [] tid = "GList"  -> [ok |-> TRUE, s |-> "Widget"]
      [] OTHER          -> [ok |-> FALSE, s |-> rust_type(tid).s]

RefModes == {"None", "ByRef", "ByRefMut"}

\* RefMode::of(env, tid, direction)
RefMode_of(tid, direction) ==
    IF direction = "In"
    THEN CASE tid \in {"Widget", "GList"} -> "ByRef"
           [] tid = "Rectangle"           -> "ByRefMut"
           [] OTHER                       -> "None"
    ELSE "None"

\* RefMode::is_ref
is_ref(mode) == mode # "None"

\* Bound::get_for_property_setter(env, var_name, typ, nullable)
Bound_get_for_property_setter(tid, nullable) ==
    IF env_type(tid).kind \in {"Class", "Interface"}
    THEN Some([bound_type |-> "IsA", type_str |-> rust_type(tid).s, nullable |-> nullable])
    ELSE None

\* Env::is_totally_deprecated(version)
is_totally_deprecated(cutoff, version) ==
    IsSome(version) /\ Unwrap(version) <= cutoff

\* nameutil::signal_to_snake: the dashes of a property name become underscores
signal_to_snake(name) ==
    CASE name = "width-request" -> "width_request"
      [] OTHER                  -> name

\* nameutil::mangle_keywords: a Rust keyword gets a trailing underscore
mangle_keywords(name) == IF name \in {"type"} THEN name \o "_" ELSE name

-----------------------------------------------------------------------------
(* analyze_property *)

SetMin(S) == CHOOSE m \in S : \A x \in S : m <= x

\* configured_properties.iter().filter_map(|f| f.version).min()
min_configured_version(configured) ==
    LET vs == {Unwrap(configured[i].version) :
                 i \in {j \in DOMAIN configured : IsSome(configured[j].version)}}
    IN  IF vs = {} THEN None ELSE Some(SetMin(vs))

\* a plausible slip: the override can only raise the version
prop_version_clamped(configured, prop) ==
    LET v == OptOr(min_configured_version(configured), prop.version)
    IN  IF OptVersionLe(prop.version, v) THEN v ELSE prop.version

\* let prop_version = ...min().or(prop.version)
prop_version(configured, prop) ==
    OptOr(min_configured_version(configured), prop.version)

\* a plausible slip: the construct-only flag is not consulted
initial_writable_unchecked(prop) == prop.writable

\* let mut writable = if prop.construct_only { false } else { prop.writable }
initial_writable(prop) == IF prop.construct_only THEN FALSE ELSE prop.writable

\* a plausible slip: strict comparison with the effective version
has_manual_accessor_strict(cutoff, sig, pv) ==
    sig.has /\ (is_totally_deprecated(cutoff, sig.version)
                \/ (sig.version # pv /\ OptVersionLe(sig.version, pv)))

\* has && (env.is_totally_deprecated(version) || version <= prop_version)
has_manual_accessor(cutoff, sig, pv) ==
    sig.has /\ (is_totally_deprecated(cutoff, sig.version) \/ OptVersionLe(sig.version, pv))

\* a plausible slip: the getter is kept without a default value
readable_with_default_unchecked(dv, readable) == readable

\* if default_value.is_none() && readable { readable = false; ... }
readable_with_default(dv, readable) ==
    IF dv = None /\ readable THEN FALSE ELSE readable

\* a plausible slip: the computed mode is used as it is
normalize_set_in_ref_mode_identity(mode) == mode

\* if set_in_ref_mode == RefMode::ByRefMut { set_in_ref_mode = RefMode::ByRef }
normalize_set_in_ref_mode(mode) == IF mode = "ByRefMut" THEN "ByRef" ELSE mode

Add(name, version) == [call |-> "add", name |-> name, version |-> version]
AddUsedType(name, version) == [call |-> "add_used_type", name |-> name, version |-> version]

\* a plausible slip: the requirements are registered before the result is looked at
signal_imports_unconditional(tramp, trait, pv) ==
    [i \in DOMAIN tramp.used_types |-> AddUsedType(tramp.used_types[i], pv)]
    \o (IF trait THEN <<Add("glib", pv), Add("glib::object::Downcast", pv)>> ELSE <<>>)
    \o <<Add("glib::signal::connect", pv),
         Add("glib::signal::SignalHandlerId", pv),
         Add("std::mem::transmute", pv),
         Add("std::boxed::Box as Box_", pv),
         Add("glib_ffi", pv)>>

\* the imports registered inside `if trampoline_name.is_ok() { ... }`
signal_imports(tramp, trait, pv) ==
    IF tramp.ok
    THEN [i \in DOMAIN tramp.used_types |-> AddUsedType(tramp.used_types[i], pv)]
         \o (IF trait THEN <<Add("glib", pv), Add("glib::object::Downcast", pv)>> ELSE <<>>)
         \o <<Add("glib::signal::connect", pv),
              Add("glib::signal::SignalHandlerId", pv),
              Add("std::mem::transmute", pv),
              Add("std::boxed::Box as Box_", pv),
              Add("glib_ffi", pv)>>
    ELSE <<>>

\* let notify_signal = if trampoline_name.is_ok() { Some(signals::Info {..}) } else { None }
signal_info(tramp, prop, pv) ==
    IF tramp.ok
    THEN Some([connect_name |-> "connect_property_" \o signal_to_snake(prop.name) \o "_notify",
               signal_name |-> "notify::" \o prop.name,
               trampoline_name |-> tramp.name,
               version |-> pv,
               deprecated_version |-> prop.deprecated_version,
               doc_hidden |-> FALSE])
    ELSE None

\* analyze_property(env, prop, .., configured_properties, generate_trait, ..):
\* a is [prop, configured, get_sig, set_sig, tramp], where get_sig / set_sig
\* are the answers of Signature::has_by_name_and_in_deps and tramp the
\* outcome of trampolines::analyze.
analyze_property(cutoff, trait, a) ==
    LET prop == a.prop
        t    == env_type(prop.typ)
        pv   == prop_version(a.configured, prop)
        name_for_func == signal_to_snake(prop.name)
        var_name      == mangle_keywords(name_for_func)
        readable1 == IF prop.readable /\ has_manual_accessor(cutoff, a.get_sig, pv)
                     THEN FALSE ELSE prop.readable
        writable0 == initial_writable(prop)
        writable  == IF writable0 /\ has_manual_accessor(cutoff, a.set_sig, pv)
                     THEN FALSE ELSE writable0
        dv        == get_type_default_value(t, rust_type(prop.typ).s)
        readable  == readable_with_default(dv, readable1)
        conversion       == PropertyConversion_of(t)
        get_out_ref_mode == RefMode_of(prop.typ, "Return")
        set_in_ref_mode  == normalize_set_in_ref_mode(RefMode_of(prop.typ, "In"))
        nullable         == is_ref(set_in_ref_mode)
        getter == IF readable
                  THEN Some([name |-> prop.name, var_name |-> "", typ |-> prop.typ,
                             is_get |-> TRUE,
                             func_name |-> "get_property_" \o name_for_func,
                             nullable |-> nullable, conversion |-> conversion,
                             default_value |-> dv,
                             get_out_ref_mode |-> get_out_ref_mode,
                             set_in_ref_mode |-> set_in_ref_mode,
                             version |-> pv,
                             deprecated_version |-> prop.deprecated_version,
                             bound |-> None])
                  ELSE None
        setter == IF writable
                  THEN Some([name |-> prop.name, var_name |-> var_name, typ |-> prop.typ,
                             is_get |-> FALSE,
                             func_name |-> "set_property_" \o name_for_func,
                             nullable |-> nullable, conversion |-> conversion,
                             default_value |-> None,
                             get_out_ref_mode |-> get_out_ref_mode,
                             set_in_ref_mode |-> set_in_ref_mode,
                             version |-> pv,
                             deprecated_version |-> prop.deprecated_version,
                             bound |-> Bound_get_for_property_setter(prop.typ, nullable)])
                  ELSE None
    IN  [getter |-> getter,
         setter |-> setter,
         notify_signal |-> signal_info(a.tramp, prop, pv),
         imports |-> signal_imports(a.tramp, trait, pv)]

-----------------------------------------------------------------------------
(* Inputs *)

\* property names by position in the props slice (distinct, not sorted)
PropNames == <<"width-request", "type", "active", "child">>

SeqsUpTo(S, n) == UNION {[1..k -> S] : k \in 0..n}

\* Signature::has_by_name_and_in_deps(env, name, signatures, deps) -> (bool, Option<Version>)
NoSignature == [has |-> FALSE, version |-> None]
SignatureAnswers == {NoSignature} \cup {[has |-> TRUE, version |-> v] : v \in OptVersions}

\* trampolines::analyze(..): Result<String, ..>, and the used_types it filled in
TrampolineOutcomes ==
    {[ok |-> TRUE,  name |-> "notify_trampoline", used_types |-> <<"Object">>],
     [ok |-> FALSE, name |-> "",                  used_types |-> <<"Object">>]}

\* obj.properties.matched(&prop.name)
Overrides == [ignore : BOOLEAN, version : OptVersions]
KeptOverrides == {f \in Overrides : ~f.ignore}

LibraryProperties(names, tids, deprecations) ==
    [name : names, typ : tids, readable : BOOLEAN, writable : BOOLEAN,
     construct_only : BOOLEAN, version : OptVersions, deprecated_version : deprecations]

\* the registry is asked only for an accessor that is still wanted
AnswersFor(wanted) == IF wanted THEN SignatureAnswers ELSE {NoSignature}

-----------------------------------------------------------------------------
(* SpecDefault: one call of get_type_default_value *)

InitDefault ==
    /\ pc = "get_type_default_value"
    /\ type_ \in Types
    /\ type_str \in RustNames
    /\ default_value = None
    /\ min_cfg_version \in {MaxVersion}
    /\ generate_trait = FALSE
    /\ props = <<>> /\ properties = <<>> /\ notify_signals = <<>> /\ imports = <<>>
    /\ arg = None /\ ret = None

CallDefault ==
    /\ pc = "get_type_default_value"
    /\ default_value' = get_type_default_value(type_, type_str)
    /\ pc' = "returned"
    /\ UNCHANGED <<min_cfg_version, generate_trait, props, properties, notify_signals,
                   imports, arg, ret, type_, type_str>>

NextDefault == CallDefault

SpecDefault == InitDefault /\ [][NextDefault]_vars

-----------------------------------------------------------------------------
(* SpecProperty: one call of analyze_property, as analyze makes it: no     *)
(* matched override has ignore set and the property is not totally         *)
(* deprecated.                                                             *)

\* one type for each computed In reference mode, with and without default value
PropertyTypeIds == {"gboolean", "Widget", "Rectangle", "GList"}

InitProperty ==
    /\ pc = "analyze_property"
    /\ min_cfg_version \in Versions
    /\ generate_trait = FALSE
    /\ \E prop \in LibraryProperties({PropNames[1]}, PropertyTypeIds, OptVersions),
          configured \in SeqsUpTo(KeptOverrides, MaxOverrides),
          tramp \in TrampolineOutcomes :
         /\ ~is_totally_deprecated(min_cfg_version, prop.deprecated_version)
         /\ \E g \in AnswersFor(prop.readable),
               st \in AnswersFor(prop.writable /\ ~prop.construct_only) :
              arg = [prop |-> prop, configured |-> configured,
                     get_sig |-> g, set_sig |-> st, tramp |-> tramp]
    /\ ret = None
    /\ props = <<>> /\ properties = <<>> /\ notify_signals = <<>> /\ imports = <<>>
    /\ type_ = None /\ type_str = "" /\ default_value = None

CallProperty ==
    /\ pc = "analyze_property"
    /\ ret' = Some(analyze_property(min_cfg_version, generate_trait, arg))
    /\ pc' = "returned"
    /\ UNCHANGED <<min_cfg_version, generate_trait, props, properties, notify_signals,
                   imports, arg, type_, type_str, default_value>>

NextProperty == CallProperty

SpecProperty == InitProperty /\ [][NextProperty]_vars

-----------------------------------------------------------------------------
(* Spec: analyze, one iteration of `for prop in props` per step *)

OptSeq(o) == IF IsSome(o) THEN <<Unwrap(o)>> ELSE <<>>

\* a plausible slip: the setter is pushed before the getter
pushed_properties_setter_first(r) == OptSeq(r.setter) \o OptSeq(r.getter)

\* properties.push(prop) for the getter, then for the setter
pushed_properties(r) == OptSeq(r.getter) \o OptSeq(r.setter)

\* a plausible slip: the signal is pushed after the `continue` of a property
\* without accessors
pushed_signals_after_continue(r) ==
    IF r.getter = None /\ r.setter = None THEN <<>> ELSE OptSeq(r.notify_signal)

\* if let Some(notify_signal) = notify_signal { notify_signals.push(notify_signal) }
pushed_signals(r) == OptSeq(r.notify_signal)

\* the imports analyze registers for the surviving getter and setter
accessor_imports(typ, r) ==
    LET type_string      == rust_type(typ)
        used_type_string == used_rust_type(typ)
        for_getter(g) ==
            (IF used_type_string.ok THEN <<AddUsedType(used_type_string.s, g.version)>> ELSE <<>>)
            \o (IF g.conversion # "Direct" THEN <<Add("std::mem::transmute", g.version)>> ELSE <<>>)
            \o (IF type_string.ok /\ IsSome(g.default_value)
                THEN <<Add("glib::Value", g.version)>> ELSE <<>>)
        for_setter(st) ==
            (IF used_type_string.ok THEN <<AddUsedType(used_type_string.s, st.version)>> ELSE <<>>)
            \o (IF type_string.ok THEN <<Add("glib::Value", st.version)>> ELSE <<>>)
            \o (IF IsSome(st.bound)
                THEN <<Add("glib", st.version), Add("glib::object::IsA", st.version)>> ELSE <<>>)
    IN  IF r.getter = None /\ r.setter = None
        THEN <<>>
        ELSE (IF IsSome(r.getter) THEN for_getter(Unwrap(r.getter)) ELSE <<>>)
             \o (IF IsSome(r.setter) THEN for_setter(Unwrap(r.setter)) ELSE <<>>)

\* configured_properties.iter().any(|f| f.ignore)
any_ignore(configured) == \E i \in DOMAIN configured : configured[i].ignore

\* a plausible slip: only the ignore flag skips a property
is_skipped_ignore_only(cutoff, a) == any_ignore(a.configured)

\* the two `continue`s at the head of the loop body
is_skipped(cutoff, a) ==
    any_ignore(a.configured) \/ is_totally_deprecated(cutoff, a.prop.deprecated_version)

\* The inputs of one iteration: an ordinary boolean property with every
\* combination of readable, writable and trampoline outcome, alone or with
\* one of the variations below.
PlainArg(name, readable, writable, tramp) ==
    [prop |-> [name |-> name, typ |-> "gboolean", readable |-> readable,
               writable |-> writable, construct_only |-> FALSE,
               version |-> Some(MaxVersion), deprecated_version |-> None],
     configured |-> <<>>, get_sig |-> NoSignature, set_sig |-> NoSignature, tramp |-> tramp]

Variations(a) ==
    {a,
     \* skipped: one of the matched overrides has ignore set
     [a EXCEPT !.configured = <<[ignore |-> FALSE, version |-> None],
                                [ignore |-> TRUE,  version |-> None]>>],
     \* a deprecated enumeration: skipped when the cutoff has reached MaxVersion
     [a EXCEPT !.prop.typ = "Mode", !.prop.deprecated_version = Some(MaxVersion)],
     \* a type without default value, whose name does not render
     [a EXCEPT !.prop.typ = "Callback"],
     \* an object, whose setter takes a bound
     [a EXCEPT !.prop.typ = "Widget"],
     \* construct-only, with a hand-written getter
     [a EXCEPT !.prop.construct_only = TRUE,
               !.get_sig = IF a.prop.readable THEN [has |-> TRUE, version |-> None]
                           ELSE NoSignature]}

LoopArgs(name) ==
    UNION {Variations(PlainArg(name, readable, writable, tramp)) :
             readable \in BOOLEAN, writable \in BOOLEAN, tramp \in TrampolineOutcomes}

Init ==
    /\ pc = "analyze"
    /\ min_cfg_version \in Versions
    /\ generate_trait = TRUE  \* the signal then registers all of its imports
    /\ props = <<>> /\ properties = <<>> /\ notify_signals = <<>> /\ imports = <<>>
    /\ arg = None /\ ret = None
    /\ type_ = None /\ type_str = "" /\ default_value = None

\* one iteration that ends in one of the two leading `continue`s
SkipProperty ==
    /\ pc = "analyze"
    /\ Len(props) < MaxProps
    /\ \E a \in LoopArgs(PropNames[Len(props) + 1]) :
         /\ is_skipped(min_cfg_version, a)
         /\ props' = Append(props, a)
    /\ UNCHANGED <<pc, min_cfg_version, generate_trait, properties, notify_signals,
                   imports, arg, ret, type_, type_str, default_value>>

\* one iteration that calls analyze_property and pushes what it returned
AnalyzeProperty ==
    /\ pc = "analyze"
    /\ Len(props) < MaxProps
    /\ \E a \in LoopArgs(PropNames[Len(props) + 1]) :
         /\ ~is_skipped(min_cfg_version, a)
         /\ LET r == analyze_property(min_cfg_version, generate_trait, a)
            IN  /\ props' = Append(props, a)
                /\ notify_signals' = notify_signals \o pushed_signals(r)
                /\ properties' = properties \o pushed_properties(r)
                /\ imports' = imports \o r.imports \o accessor_imports(a.prop.typ, r)
    /\ UNCHANGED <<pc, min_cfg_version, generate_trait, arg, ret, type_, type_str,
                   default_value>>

\* every prefix of the iteration is the end of some props slice, where
\* (properties, notify_signals) is what analyze returns
Next == SkipProperty \/ AnalyzeProperty

Spec == Init /\ [][Next]_vars

-----------------------------------------------------------------------------
(* Properties of analyze_property, under SpecProperty *)

Returned == pc = "returned" /\ IsSome(ret)
Result == Unwrap(ret)

\* the descriptors and the signal a call returned, as a set of records
ReturnedDescriptors == {Unwrap(o) : o \in {Result.getter, Result.setter} \ {None}}
ReturnedVersions ==
    {d.version : d \in ReturnedDescriptors} \cup
    {Unwrap(o).version : o \in {Result.notify_signal} \ {None}}

VersionedOverrides(configured) ==
    {i \in DOMAIN configured : IsSome(configured[i].version)}

AtOrBeforeOrDeprecated(sig, pv) ==
    \/ sig.version = None
    \/ (IsSome(pv) /\ Unwrap(sig.version) <= Unwrap(pv))
    \/ is_totally_deprecated(min_cfg_version, sig.version)

HasDefault(tid) == IsSome(get_type_default_value(env_type(tid), rust_type(tid).s))

\* C3: a reported get_<name> (set_<name>) whose version is at or before the
\* effective version, or totally deprecated, suppresses the getter (setter)
\* of a readable (writable, not construct-only) property; when none is
\* reported the registry check suppresses nothing.
C3_ManualOverridePrecedence ==
    Returned =>
      LET pv == prop_version(arg.configured, arg.prop)
      IN  /\ (arg.prop.readable /\ arg.get_sig.has /\ AtOrBeforeOrDeprecated(arg.get_sig, pv))
               => Result.getter = None
          /\ (arg.prop.writable /\ ~arg.prop.construct_only
                /\ arg.set_sig.has /\ AtOrBeforeOrDeprecated(arg.set_sig, pv))
               => Result.setter = None
          /\ (arg.prop.readable /\ ~arg.get_sig.has /\ HasDefault(arg.prop.typ))
               => IsSome(Result.getter)
          /\ (arg.prop.writable /\ ~arg.prop.construct_only /\ ~arg.set_sig.has)
               => IsSome(Result.setter)

\* a readable property with a default value whose get_<name> exists at exactly
\* the effective version, not deprecated: the getter is suppressed, and the
\* setter, for which nothing is reported, is produced
C3_Witness ==
    /\ Returned
    /\ arg.prop.readable /\ HasDefault(arg.prop.typ)
    /\ arg.get_sig.has /\ IsSome(arg.get_sig.version)
    /\ arg.get_sig.version = prop_version(arg.configured, arg.prop)
    /\ ~is_totally_deprecated(min_cfg_version, arg.get_sig.version)
    /\ Result.getter = None
    /\ arg.prop.writable /\ ~arg.set_sig.has /\ IsSome(Result.setter)

\* C6: a construct-only property never gets a setter descriptor (a descriptor
\* with is_get = FALSE), whatever the writable flag, the overrides and the
\* registry say.
C6_ConstructOnlyNoSetter ==
    (Returned /\ arg.prop.construct_only) =>
      /\ Result.setter = None
      /\ \A d \in ReturnedDescriptors : d.is_get

\* a writable, readable construct-only property: getter only
C6_Witness ==
    /\ Returned
    /\ arg.prop.construct_only /\ arg.prop.writable
    /\ IsSome(Result.getter) /\ Result.setter = None

\* C7: a property whose type has no default value gets no getter even if it
\* is readable, and every returned getter carries a default value; its setter
\* and its notify signal are decided as for any other type.
C7_NoDefaultNoGetter ==
    Returned =>
      /\ ~HasDefault(arg.prop.typ) => Result.getter = None
      /\ IsSome(Result.getter) => IsSome(Unwrap(Result.getter).default_value)
      /\ IsSome(Result.setter) <=>
           (arg.prop.writable /\ ~arg.prop.construct_only
              /\ ~(arg.set_sig.has
                     /\ AtOrBeforeOrDeprecated(arg.set_sig, prop_version(arg.configured, arg.prop))))
      /\ IsSome(Result.notify_signal) <=> arg.tramp.ok

\* a readable and writable property of a type without default value: no
\* getter, but the setter and the notify signal
C7_Witness ==
    /\ Returned
    /\ arg.prop.readable /\ ~arg.get_sig.has /\ ~HasDefault(arg.prop.typ)
    /\ Result.getter = None
    /\ IsSome(Result.setter) /\ IsSome(Result.notify_signal)

\* C8: no returned descriptor has the setter input mode ByRefMut: a mode
\* computed as ByRefMut for the In direction becomes ByRef, any other
\* computed mode is kept.
C8_SetterRefModeNormalized ==
    Returned =>
      \A d \in ReturnedDescriptors :
        LET computed == RefMode_of(arg.prop.typ, "In")
        IN  /\ d.set_in_ref_mode # "ByRefMut"
            /\ computed = "ByRefMut" => d.set_in_ref_mode = "ByRef"
            /\ computed # "ByRefMut" => d.set_in_ref_mode = computed

\* a setter of a type whose In mode is computed as ByRefMut
C8_Witness ==
    /\ Returned
    /\ RefMode_of(arg.prop.typ, "In") = "ByRefMut"
    /\ IsSome(Result.setter)
    /\ Unwrap(Result.setter).set_in_ref_mode = "ByRef"

-----------------------------------------------------------------------------
(* Properties of analyze, under Spec *)

\* the property of iteration a is skipped: an override matched by its name
\* has ignore set, or its deprecation version is totally deprecated
SkippedBy(a) ==
    \/ \E j \in DOMAIN a.configured : a.configured[j].ignore
    \/ is_totally_deprecated(min_cfg_version, a.prop.deprecated_version)

DescriptorsNamed(n) == {k \in DOMAIN properties : properties[k].name = n}
SignalsNamed(n) ==
    {k \in DOMAIN notify_signals : notify_signals[k].signal_name = "notify::" \o n}

\* C2: a skipped property has no getter, no setter and no notify signal in
\* the returned lists, whatever its flags and type are.
C2_SkippedProducesNothing ==
    \A i \in DOMAIN props :
      SkippedBy(props[i]) =>
        /\ DescriptorsNamed(props[i].prop.name) = {}
        /\ SignalsNamed(props[i].prop.name) = {}

\* a readable, writable property skipped for an ignore override and one
\* skipped for its deprecation, both with a working trampoline
C2_Witness ==
    /\ \E i \in DOMAIN props :
         /\ \E j \in DOMAIN props[i].configured : props[i].configured[j].ignore
         /\ props[i].prop.readable /\ props[i].prop.writable /\ props[i].tramp.ok
    /\ \E i \in DOMAIN props :
         /\ props[i].configured = <<>>
         /\ SkippedBy(props[i])
         /\ props[i].prop.readable /\ props[i].prop.writable /\ props[i].tramp.ok
    /\ properties = <<>> /\ notify_signals = <<>>

\* C4: every property that is not skipped and whose trampoline synthesis
\* succeeds has exactly one signal descriptor, named "notify::" + its name,
\* also when it has neither getter nor setter.
C4_NotifySignalIndependent ==
    \A i \in DOMAIN props :
      (~SkippedBy(props[i]) /\ props[i].tramp.ok) =>
        Cardinality(SignalsNamed(props[i].prop.name)) = 1

\* a construct-only property and a property with hand-written accessors,
\* both without descriptor, both with their signal
C4_Witness ==
    /\ \E i \in DOMAIN props :
         /\ props[i].prop.construct_only /\ props[i].prop.writable
         /\ DescriptorsNamed(props[i].prop.name) = {}
         /\ Cardinality(SignalsNamed(props[i].prop.name)) = 1
    /\ \E i \in DOMAIN props :
         /\ props[i].prop.readable /\ props[i].get_sig.has
         /\ DescriptorsNamed(props[i].prop.name) = {}
         /\ Cardinality(SignalsNamed(props[i].prop.name)) = 1

\* the same iteration with a trampoline synthesis that succeeds
Succeeding(a) == [a EXCEPT !.tramp = CHOOSE t \in TrampolineOutcomes : t.ok]

\* what iteration a pushes and registers if its synthesis succeeds; a failed
\* synthesis registers nothing for the signal
IfSucceeding(a) ==
    LET r == analyze_property(min_cfg_version, generate_trait, Succeeding(a))
    IN  [descriptors |-> pushed_properties(r),
         imports |-> (IF a.tramp.ok THEN r.imports ELSE <<>>)
                     \o accessor_imports(a.prop.typ, r)]

\* the descriptor list and the import registrations of the run over ps in
\* which every synthesis succeeds, but a failed one registers nothing
RECURSIVE RunIfSucceeding(_)
RunIfSucceeding(ps) ==
    IF ps = <<>> THEN [descriptors |-> <<>>, imports |-> <<>>]
    ELSE LET a    == ps[Len(ps)]
             rest == RunIfSucceeding(SubSeq(ps, 1, Len(ps) - 1))
             this == IfSucceeding(a)
         IN  IF SkippedBy(a) THEN rest
             ELSE [descriptors |-> rest.descriptors \o this.descriptors,
                   imports |-> rest.imports \o this.imports]

\* C5: a failed trampoline synthesis leaves the property without signal
\* descriptor and registers none of the signal's imports, and the getter and
\* setter descriptors of every property are those of the run in which every
\* synthesis succeeds.
C5_TrampolineFailureSoft ==
    /\ \A i \in DOMAIN props :
         (~SkippedBy(props[i]) /\ ~props[i].tramp.ok) => SignalsNamed(props[i].prop.name) = {}
    /\ LET run == RunIfSucceeding(props)
       IN  properties = run.descriptors /\ imports = run.imports

\* a failed synthesis for a property that keeps its getter and its setter,
\* beside a property whose synthesis succeeds
C5_Witness ==
    /\ \E i \in DOMAIN props :
         /\ ~props[i].tramp.ok
         /\ \E k, l \in DescriptorsNamed(props[i].prop.name) :
              properties[k].is_get /\ ~properties[l].is_get
         /\ SignalsNamed(props[i].prop.name) = {}
    /\ \E i \in DOMAIN props :
         /\ props[i].tramp.ok
         /\ SignalsNamed(props[i].prop.name) # {}
    /\ Cardinality({k \in DOMAIN imports : imports[k].name = "glib::signal::connect"})
         = Cardinality({i \in DOMAIN props : props[i].tramp.ok})

\* the position in the props slice of the property a descriptor is named after
Origin(name) == CHOOSE i \in DOMAIN PropNames : PropNames[i] = name
SignalOrigin(sig) ==
    CHOOSE i \in DOMAIN PropNames : "notify::" \o PropNames[i] = sig.signal_name

\* C9: the descriptor list holds the surviving descriptors of the properties
\* in input order, the getter of a property immediately before its setter;
\* the signal list holds at most one signal per property, in input order.
C9_OutputOrder ==
    /\ \A k, l \in DOMAIN properties :
         k < l =>
           \/ Origin(properties[k].name) < Origin(properties[l].name)
           \/ /\ properties[k].name = properties[l].name
              /\ properties[k].is_get /\ ~properties[l].is_get
              /\ l = k + 1
    /\ \A k, l \in DOMAIN notify_signals :
         k < l => SignalOrigin(notify_signals[k]) < SignalOrigin(notify_signals[l])
    /\ \A k \in DOMAIN properties : Origin(properties[k].name) \in DOMAIN props
    /\ \A i \in DOMAIN props :
         LET survivors ==
               IF SkippedBy(props[i]) THEN {}
               ELSE LET r == analyze_property(min_cfg_version, generate_trait, props[i])
                    IN  {r.getter, r.setter} \ {None}
         IN  {Some(properties[k]) : k \in DescriptorsNamed(props[i].prop.name)} = survivors

\* MaxProps properties, each with getter, setter and signal
C9_Witness ==
    /\ Len(props) = MaxProps
    /\ Len(properties) = MaxProps + MaxProps
    /\ Len(notify_signals) = MaxProps
    /\ \A i \in DOMAIN props : Cardinality(DescriptorsNamed(props[i].prop.name)) > 1

-----------------------------------------------------------------------------
(* Properties of get_type_default_value, under SpecDefault *)

\* what a literal of the generated code denotes
Zero(sort, signed, width) == [sort |-> sort, signed |-> signed, width |-> width]
Absent(of) == [sort |-> "absent", of |-> of]
Meaning(lit) ==
    CASE lit = "&false"  -> [sort |-> "false"]
      [] lit = "&0"      -> Zero("int", TRUE, "32")
      [] lit = "&0i8"    -> Zero("int", TRUE, "8")
      [] lit = "&0u8"    -> Zero("int", FALSE, "8")
      [] lit = "&0i16"   -> Zero("int", TRUE, "16")
      [] lit = "&0u16"   -> Zero("int", FALSE, "16")
      [] lit = "&0i32"   -> Zero("int", TRUE, "32")
      [] lit = "&0u32"   -> Zero("int", FALSE, "32")
      [] lit = "&0i64"   -> Zero("int", TRUE, "64")
      [] lit = "&0u64"   -> Zero("int", FALSE, "64")
      [] lit = "&0isize" -> Zero("int", TRUE, "size")
      [] lit = "&0usize" -> Zero("int", FALSE, "size")
      [] lit = "&0f32"   -> Zero("float", TRUE, "32")
      [] lit = "&0f64"   -> Zero("float", TRUE, "64")
      [] lit = "None::<&str>" -> Absent("str")
      [] lit = "::std::ptr::null_mut()" -> [sort |-> "null"]
      [] lit = "&gobject_sys::G_TYPE_NONE" -> [sort |-> "type none"]
      [] lit \in {"None::<&" \o n \o ">" : n \in RustNames} ->
           Absent(CHOOSE n \in RustNames : lit = "None::<&" \o n \o ">")

\* m has every field of the claimed meaning c, with the same value
Denotes(m, c) == \A f \in DOMAIN c : f \in DOMAIN m /\ m[f] = c[f]

\* the default value the claim gives each category
ClaimedDefault(t, s) ==
    IF t.kind = "Fundamental" THEN
        CASE t.fund = "Boolean" -> Some([sort |-> "false"])
          [] t.fund \in {"Int8", "Char"}    -> Some(Zero("int", TRUE, "8"))
          [] t.fund \in {"UInt8", "UChar"}  -> Some(Zero("int", FALSE, "8"))
          [] t.fund = "Int16"               -> Some(Zero("int", TRUE, "16"))
          [] t.fund = "UInt16"              -> Some(Zero("int", FALSE, "16"))
          [] t.fund \in {"Int", "Int32"}    -> Some(Zero("int", TRUE, "32"))
          [] t.fund \in {"UInt", "UInt32"}  -> Some(Zero("int", FALSE, "32"))
          [] t.fund = "Int64"               -> Some(Zero("int", TRUE, "64"))
          [] t.fund = "UInt64"              -> Some(Zero("int", FALSE, "64"))
          [] t.fund = "Size"                -> Some(Zero("int", FALSE, "size"))
          [] t.fund = "SSize"               -> Some(Zero("int", TRUE, "size"))
          [] t.fund = "Float"               -> Some(Zero("float", TRUE, "32"))
          [] t.fund = "Double"              -> Some(Zero("float", TRUE, "64"))
          [] t.fund = "Utf8"                -> Some(Absent("str"))
          [] t.fund = "Pointer"             -> Some([sort |-> "null"])
          [] t.fund = "Type"                -> Some([sort |-> "type none"])
          [] OTHER                          -> None
    ELSE CASE t.kind \in {"Class", "Record", "Interface"} -> Some(Absent(s))
           [] t.kind \in {"Enumeration", "Bitfield"} -> Some([sort |-> "int"])
           [] OTHER                  -> None

\* C10: get_type_default_value gives every category the literal of the
\* matching width and signedness: Size an unsigned and SSize a signed
\* pointer-sized zero among them; categories without mapping give None.
C10_DefaultValueTable ==
    pc = "returned" =>
      LET claimed == ClaimedDefault(type_, type_str)
      IN  IF claimed = None THEN default_value = None
          ELSE IsSome(default_value) /\ Denotes(Meaning(Unwrap(default_value)), Unwrap(claimed))

====
